---- MODULE Spec2Model ----
(***************************************************************************)
(* A model of expense_track.py: the per-user record store (load_data,      *)
(* save_data and the files they use), the user registry                    *)
(* (user_management_menu, delete_user_profile, reset_user_data), the       *)
(* record editor (add_expense, manage_expenses), the aggregation           *)
(* (view_summary, view_monthly_summary, view_annual_summary) and the       *)
(* budget evaluation (set_budget, check_budgets), driven by main().        *)
(*                                                                         *)
(* Text is modelled as follows.  A username is a sequence of one-character *)
(* strings, so that strip() and isalnum() are computed.  A file name is    *)
(* the username followed by one token for the suffix.  A category is a     *)
(* string, a date "YYYY-MM-DD" is the tuple <<Y, M, D>> (zero-padded       *)
(* strings compare as these tuples do).  An amount is a float; floats are  *)
(* scaled down to MantissaBits significant bits, with integers for the     *)
(* representable values, and round-to-nearest-even on every addition.      *)
(***************************************************************************)
EXTENDS Integers, Sequences, FiniteSets, TLC

VARIABLES
    fs,                     \* the directory: file name -> content
    pc,                     \* where the program is
    users,                  \* user_management_menu's local list `users`
    CURRENT_USERNAME,       \* global, None when nobody is logged in
    CURRENT_EXPENSE_FILE,   \* global
    CURRENT_BUDGET_FILE,    \* global
    expenses,               \* main's local `expenses`
    budgets,                \* main's local `budgets`
    out,                    \* what the last operation returned or displayed
    last,                   \* the last operation and its inputs (history)
    erased                  \* history: the users deleted while they had records

vars == <<fs, pc, users, CURRENT_USERNAME, CURRENT_EXPENSE_FILE,
          CURRENT_BUDGET_FILE, expenses, budgets, out, last, erased>>

-----------------------------------------------------------------------------
(* Bounds of the model *)

MaxLen == 2          \* records per store in the whole-program specification
MaxRecords == 3      \* records per store where a single function is applied
MantissaBits == 2    \* significant bits of a float (53 in the program)

-----------------------------------------------------------------------------
(* Constants of the program *)

BASE_EXPENSE_FILE == "_expenses.json"
BASE_BUDGET_FILE == "_budgets.json"
USERS_FILE == <<"users.json">>
None == <<"None">>

common_categories ==
    <<"Food", "Transport", "Entertainment", "Utilities", "Rent", "Groceries",
      "Shopping", "Health", "Education", "Other">>

-----------------------------------------------------------------------------
(* Generic helpers *)

Range(s) == {s[i] : i \in 1..Len(s)}

SeqsUpTo(S, n) == UNION {[1..k -> S] : k \in 0..n}

\* A removal that fills the hole with the last element.
RemoveAt_SwapLast(s, i) ==
    [j \in 1..(Len(s) - 1) |-> IF j = i THEN s[Len(s)] ELSE s[j]]

\* list.pop(i) and list.remove, with positions counted from 1.
RemoveAt(s, i) == [j \in 1..(Len(s) - 1) |-> IF j < i THEN s[j] ELSE s[j + 1]]

RECURSIVE Pow2(_)
Pow2(e) == IF e = 0 THEN 1 ELSE 2 * Pow2(e - 1)

-----------------------------------------------------------------------------
(* Floats: float(input(...)), +, - and comparison *)

\* The exponent e with 2^(MantissaBits-1) <= n / 2^e < 2^MantissaBits, n >= 0.
RECURSIVE Exponent(_)
Exponent(n) == IF n < Pow2(MantissaBits) THEN 0 ELSE 1 + Exponent(n \div 2)

\* Round a non-negative real (here an integer) to the nearest float, ties to even.
RoundNat(n) ==
    LET e == Exponent(n)
        q == n \div Pow2(e)
        r == n % Pow2(e)
        up == \/ 2 * r > Pow2(e)
              \/ 2 * r = Pow2(e) /\ q % 2 = 1
    IN  IF e = 0 THEN n ELSE (IF up THEN q + 1 ELSE q) * Pow2(e)

Round(x) == IF x >= 0 THEN RoundNat(x) ELSE 0 - RoundNat(0 - x)

Representable(x) == Round(x) = x

\* float("nan").  It is encoded as the least positive integer that is no
\* float of the model, and every operation on floats treats it apart: an
\* arithmetic operation on it yields nan, a comparison with it is False.
NaN == Pow2(MantissaBits) + 1

IsNaN(x) == x = NaN

FAdd(a, b) == IF IsNaN(a) \/ IsNaN(b) THEN NaN ELSE Round(a + b)

FSub(a, b) == IF IsNaN(a) \/ IsNaN(b) THEN NaN ELSE Round(a - b)

\* a < b, a <= b and a == b on floats
FLess(a, b) == ~IsNaN(a) /\ ~IsNaN(b) /\ a < b
FLessEq(a, b) == ~IsNaN(a) /\ ~IsNaN(b) /\ a <= b
FEq(a, b) == ~IsNaN(a) /\ ~IsNaN(b) /\ a = b

-----------------------------------------------------------------------------
(* Text: str.strip, str.isalnum, str.title *)

Whitespace == {" "}
AlnumChars == {"a", "b"}

RECURSIVE LStrip(_)
LStrip(s) == IF s # <<>> /\ Head(s) \in Whitespace THEN LStrip(Tail(s)) ELSE s

RECURSIVE RStrip(_)
RStrip(s) ==
    IF s # <<>> /\ s[Len(s)] \in Whitespace
    THEN RStrip(SubSeq(s, 1, Len(s) - 1)) ELSE s

strip(s) == RStrip(LStrip(s))

isalnum(s) == s # <<>> /\ \A i \in 1..Len(s) : s[i] \in AlnumChars

\* The usernames the model types in.
UserNamesTyped == {<<"a">>, <<"b">>}

\* str.strip().title() on the category texts the model types in.
StripTitle(text) ==
    CASE text \in {"food", "Food", " food "} -> "Food"
      [] text \in {"rent", "Rent", "RENT"} -> "Rent"
      [] text \in {"fun", "Fun"} -> "Fun"
      [] text \in {"", " "} -> ""
      [] OTHER -> text

-----------------------------------------------------------------------------
(* Python values and JSON documents.  Both are tagged: a Python value is   *)
(* list/dict/float/str, a JSON document is arr/obj/num/str.  A dict and an *)
(* obj keep their members in order, as a sequence of <<key, value>>.       *)

PyList(items) == [t |-> "list", v |-> items]
PyDict(members) == [t |-> "dict", v |-> members]
PyFloat(x) == [t |-> "float", v |-> x]
PyStr(s) == [t |-> "str", v |-> s]

Keys(members) == [i \in 1..Len(members) |-> members[i][1]]

HasKey(members, k) == \E i \in 1..Len(members) : members[i][1] = k

\* dict.get(k, default)
Get(members, k, default) ==
    IF HasKey(members, k)
    THEN members[CHOOSE i \in 1..Len(members) : members[i][1] = k][2]
    ELSE default

\* d[k] = x: an existing key keeps its place, a new key goes last.
Put(members, k, x) ==
    IF HasKey(members, k)
    THEN [i \in 1..Len(members) |->
            IF members[i][1] = k THEN <<k, x>> ELSE members[i]]
    ELSE Append(members, <<k, x>>)

\* json.dump
RECURSIVE json_dump(_)
json_dump(py) ==
    CASE py.t = "list" ->
           [t |-> "arr", v |-> [i \in 1..Len(py.v) |-> json_dump(py.v[i])]]
      [] py.t = "dict" ->
           [t |-> "obj",
            v |-> [i \in 1..Len(py.v) |-> <<py.v[i][1], json_dump(py.v[i][2])>>]]
      [] py.t = "float" -> [t |-> "num", v |-> py.v]
      [] py.t = "str" -> [t |-> "str", v |-> py.v]

\* An object's members as a dict: a repeated key keeps its first place and
\* its last value.
RECURSIVE DictOf(_)
DictOf(members) ==
    IF members = <<>> THEN <<>>
    ELSE LET n == Len(members)
         IN  Put(DictOf(SubSeq(members, 1, n - 1)), members[n][1], members[n][2])

\* json.load of a text that parses
RECURSIVE json_load(_)
json_load(doc) ==
    CASE doc.t = "arr" ->
           PyList([i \in 1..Len(doc.v) |-> json_load(doc.v[i])])
      [] doc.t = "obj" ->
           PyDict(DictOf([i \in 1..Len(doc.v) |->
                            <<doc.v[i][1], json_load(doc.v[i][2])>>]))
      [] doc.t = "num" -> PyFloat(doc.v)
      [] doc.t = "str" -> PyStr(doc.v)

\* An expense record {"amount": .., "category": .., "date": ..} of the program.
RecordToPy(r) ==
    PyDict(<< <<"amount", PyFloat(r.amount)>>,
              <<"category", PyStr(r.category)>>,
              <<"date", PyStr(r.date)>> >>)

PyToRecord(py) ==
    [amount |-> Get(py.v, "amount", PyFloat(0)).v,
     category |-> Get(py.v, "category", PyStr("")).v,
     date |-> Get(py.v, "date", PyStr(<<0, 0, 0>>)).v]

ExpensesToPy(records) == PyList([i \in 1..Len(records) |-> RecordToPy(records[i])])

PyToExpenses(py) == [i \in 1..Len(py.v) |-> PyToRecord(py.v[i])]

BudgetsToPy(pairs) ==
    PyDict([i \in 1..Len(pairs) |-> <<pairs[i][1], PyFloat(pairs[i][2])>>])

PyToBudgets(py) == [i \in 1..Len(py.v) |-> <<py.v[i][1], py.v[i][2].v>>]

UsersToPy(names) == PyList([i \in 1..Len(names) |-> PyStr(names[i])])

PyToUsers(py) == [i \in 1..Len(py.v) |-> py.v[i].v]

-----------------------------------------------------------------------------
(* Files *)

\* What a location holds: no file, a text that parses as JSON, a text that
\* does not (json.JSONDecodeError), or bytes that are no text in the
\* encoding open() uses (UnicodeDecodeError).
Absent == [kind |-> "absent"]
Garbage == [kind |-> "garbage"]
Undecodable == [kind |-> "undecodable"]
Json(doc) == [kind |-> "json", doc |-> doc]

ExpenseFile(username) == username \o <<BASE_EXPENSE_FILE>>
BudgetFile(username) == username \o <<BASE_BUDGET_FILE>>

\* `suffix in filename`
Contains(filename, suffix) == \E i \in 1..Len(filename) : filename[i] = suffix

Returned(py) == [raised |-> "", value |-> py]
Raised(exception) == [raised |-> exception, value |-> PyStr("")]

load_data(disk, filename) ==
    LET content == disk[filename]
    IN  CASE content.kind = "json" -> Returned(json_load(content.doc))
          [] content.kind = "undecodable" -> Raised("UnicodeDecodeError")
          [] OTHER ->
               IF Contains(filename, BASE_EXPENSE_FILE) THEN Returned(PyList(<<>>))
               ELSE IF Contains(filename, BASE_BUDGET_FILE) THEN Returned(PyDict(<<>>))
               ELSE IF filename = USERS_FILE THEN Returned(PyList(<<>>))
               ELSE Returned(PyDict(<<>>))

\* A save that writes nothing.
save_data_Skipped(disk, data, filename) == disk

save_data(disk, data, filename) ==
    [disk EXCEPT ![filename] = Json(json_dump(data))]

\* A removal that leaves expense files where they are.
remove_KeepsExpenses(disk, filename) ==
    IF disk[filename].kind # "absent" /\ ~Contains(filename, BASE_EXPENSE_FILE)
    THEN [disk EXCEPT ![filename] = Absent] ELSE disk

\* os.path.exists / os.remove
remove(disk, filename) ==
    IF disk[filename].kind # "absent"
    THEN [disk EXCEPT ![filename] = Absent] ELSE disk

-----------------------------------------------------------------------------
(* What the user types *)

\* The text typed at a numeric prompt: blank, a number, or no number at all.
Blank == [k |-> "blank", v |-> 0]
Num(n) == [k |-> "num", v |-> n]
Junk == [k |-> "junk", v |-> 0]

\* The clock: datetime.now() and the day before it.
Today == <<2024, 2, 1>>
Yesterday == <<2024, 1, 31>>

\* The text typed at a date prompt.
DateBlank == [k |-> "blank", v |-> <<0, 0, 0>>]
DateWord(w) == [k |-> w, v |-> <<0, 0, 0>>]
DateText(d) == [k |-> "date", v |-> d]

\* The answer to get_valid_category: a number of the list, or 'c' and a text.
CatNumber(n) == [k |-> "number", n |-> n, text |-> ""]
CatCustom(text) == [k |-> "custom", n |-> 0, text |-> text]

NoOut == [kind |-> "none"]
Op(op, name, ref, ok) == [op |-> op, name |-> name, ref |-> ref, ok |-> ok]

-----------------------------------------------------------------------------
(* Input validation: get_valid_amount, get_valid_date, get_valid_category *)

\* float(input(prompt)) is accepted: the loop returns it.
AmountAccepted(typed) == typed.k = "num" /\ ~FLessEq(typed.v, 0)

ValidDate(d) == d[2] \in 1..12 /\ d[3] \in 1..31

\* get_valid_date returns for this input (an invalid date asks again).
DateAccepted(typed) == typed.k = "date" => ValidDate(typed.v)

get_valid_date(typed, default_date) ==
    CASE typed.k = "blank" -> IF default_date # <<>> THEN default_date ELSE Today
      [] typed.k = "today" -> Today
      [] typed.k = "yesterday" -> Yesterday
      [] OTHER -> typed.v

CategoryAccepted(typed) ==
    IF typed.k = "custom" THEN StripTitle(typed.text) # ""
    ELSE 0 <= typed.n - 1 /\ typed.n - 1 < Len(common_categories)

get_valid_category(typed) ==
    IF typed.k = "custom" THEN StripTitle(typed.text)
    ELSE common_categories[typed.n]

-----------------------------------------------------------------------------
(* The top of main's loop: both stores of the active user are loaded *)

LoadedExpenses == PyToExpenses(load_data(fs, CURRENT_EXPENSE_FILE).value)
LoadedBudgets == PyToBudgets(load_data(fs, CURRENT_BUDGET_FILE).value)

Globals == <<CURRENT_USERNAME, CURRENT_EXPENSE_FILE, CURRENT_BUDGET_FILE>>

-----------------------------------------------------------------------------
(* user_management_menu *)

\* main() calls user_management_menu() first; it loads the registry.
MenuEnter ==
    /\ pc = "start"
    /\ users' = PyToUsers(load_data(fs, USERS_FILE).value)
    /\ pc' = "menu"
    /\ out' = NoOut
    /\ last' = Op("menu", None, 0, TRUE)
    /\ UNCHANGED <<erased, fs, Globals, expenses, budgets>>

\* choice '1'
MenuChooseSelect ==
    /\ pc = "menu"
    /\ pc' = IF users = <<>> THEN "menu" ELSE "select"
    /\ out' = NoOut
    /\ last' = Op("choose_select", None, 0, users # <<>>)
    /\ UNCHANGED <<erased, fs, users, Globals, expenses, budgets>>

\* A selection that sets the username and leaves the two file names.
SelectUser_KeepsFiles(typed) ==
    /\ pc = "select"
    /\ LET idx == typed.v - 1
           valid == typed.k = "num" /\ typed.v >= 0 /\ 0 <= idx /\ idx < Len(users)
       IN  IF valid
           THEN /\ CURRENT_USERNAME' = users[idx + 1]
                /\ UNCHANGED <<CURRENT_EXPENSE_FILE, CURRENT_BUDGET_FILE>>
                /\ pc' = "main"
                /\ users' = <<>>
                /\ last' = Op("select", users[idx + 1], typed.v, TRUE)
           ELSE /\ UNCHANGED <<Globals, pc, users>>
                /\ last' = Op("select", None, typed.v, FALSE)
    /\ out' = NoOut
    /\ UNCHANGED <<erased, fs, expenses, budgets>>

\* The number typed at "Enter the number of the user to select".
SelectUser(typed) ==
    /\ pc = "select"
    /\ LET idx == typed.v - 1
           valid == typed.k = "num" /\ typed.v >= 0 /\ 0 <= idx /\ idx < Len(users)
       IN  IF valid
           THEN /\ CURRENT_USERNAME' = users[idx + 1]
                /\ CURRENT_EXPENSE_FILE' = ExpenseFile(users[idx + 1])
                /\ CURRENT_BUDGET_FILE' = BudgetFile(users[idx + 1])
                /\ pc' = "main"
                /\ users' = <<>>
                /\ last' = Op("select", users[idx + 1], typed.v, TRUE)
           ELSE /\ UNCHANGED <<Globals, pc, users>>
                /\ last' = Op("select", None, typed.v, FALSE)
    /\ out' = NoOut
    /\ UNCHANGED <<erased, fs, expenses, budgets>>

\* choice '2'
MenuChooseCreate ==
    /\ pc = "menu"
    /\ pc' = "create"
    /\ out' = NoOut
    /\ last' = Op("choose_create", None, 0, TRUE)
    /\ UNCHANGED <<erased, fs, users, Globals, expenses, budgets>>

\* CreateUser without the test `new_username in users`.
CreateUser_NoDuplicateTest(typed) ==
    /\ pc = "create"
    /\ isalnum(strip(typed))
    /\ Len(users) <= Cardinality(UserNamesTyped)
    /\ fs' = save_data(fs, UsersToPy(Append(users, strip(typed))), USERS_FILE)
    /\ CURRENT_USERNAME' = strip(typed)
    /\ CURRENT_EXPENSE_FILE' = ExpenseFile(strip(typed))
    /\ CURRENT_BUDGET_FILE' = BudgetFile(strip(typed))
    /\ pc' = "main"
    /\ users' = <<>>
    /\ last' = Op("create", strip(typed), 0, TRUE)
    /\ out' = NoOut
    /\ UNCHANGED <<erased, expenses, budgets>>

\* The text typed at "Enter a new username".
CreateUser(typed) ==
    /\ pc = "create"
    /\ LET new_username == strip(typed)
       IN  IF ~isalnum(new_username) \/ new_username \in Range(users)
           THEN /\ UNCHANGED <<fs, Globals, pc, users>>
                /\ last' = Op("create", new_username, 0, FALSE)
           ELSE /\ fs' = save_data(fs, UsersToPy(Append(users, new_username)),
                                   USERS_FILE)
                /\ CURRENT_USERNAME' = new_username
                /\ CURRENT_EXPENSE_FILE' = ExpenseFile(new_username)
                /\ CURRENT_BUDGET_FILE' = BudgetFile(new_username)
                /\ pc' = "main"
                /\ users' = <<>>
                /\ last' = Op("create", new_username, 0, TRUE)
    /\ out' = NoOut
    /\ UNCHANGED <<erased, expenses, budgets>>

\* choice '3'
MenuChooseDelete ==
    /\ pc = "menu"
    /\ pc' = IF users = <<>> THEN "menu" ELSE "delete"
    /\ out' = NoOut
    /\ last' = Op("choose_delete", None, 0, users # <<>>)
    /\ UNCHANGED <<erased, fs, users, Globals, expenses, budgets>>

\* list.remove(x): the first occurrence goes.
ListRemove(s, x) == RemoveAt(s, CHOOSE i \in 1..Len(s) : s[i] = x /\ \A j \in 1..(i - 1) : s[j] # x)

\* delete_user_profile with the logout of the deleted active user left out.
delete_user_profile_KeepsActive(disk, users_list, username_to_delete, current, confirm) ==
    IF confirm = "DELETE USER" /\ username_to_delete \in Range(users_list)
    THEN LET rest == ListRemove(users_list, username_to_delete)
             removed == remove(remove(disk, ExpenseFile(username_to_delete)),
                               BudgetFile(username_to_delete))
         IN  [disk |-> save_data(removed, UsersToPy(rest), USERS_FILE),
              users_list |-> rest, current |-> current, result |-> TRUE]
    ELSE [disk |-> disk, users_list |-> users_list, current |-> current,
          result |-> FALSE]

\* delete_user_profile(users_list, username_to_delete), given the answer to
\* its confirmation: the directory, the list and CURRENT_USERNAME after it.
delete_user_profile(disk, users_list, username_to_delete, current, confirm) ==
    IF confirm = "DELETE USER"
    THEN LET removed == remove(remove(disk, ExpenseFile(username_to_delete)),
                               BudgetFile(username_to_delete))
         IN  IF username_to_delete \in Range(users_list)
             THEN LET rest == ListRemove(users_list, username_to_delete)
                  IN  [disk |-> save_data(removed, UsersToPy(rest), USERS_FILE),
                       users_list |-> rest,
                       current |-> IF current = username_to_delete THEN None
                                   ELSE current,
                       result |-> TRUE]
             ELSE [disk |-> removed, users_list |-> users_list,
                   current |-> current, result |-> FALSE]
    ELSE [disk |-> disk, users_list |-> users_list, current |-> current,
          result |-> FALSE]

\* The expense store of `username` holds at least one record.
HasRecords(disk, username) ==
    PyToExpenses(load_data(disk, ExpenseFile(username)).value) # <<>>

\* 'q' at "Enter the number of the user to DELETE"
DeleteCancel ==
    /\ pc = "delete"
    /\ pc' = "menu"
    /\ out' = NoOut
    /\ last' = Op("delete_cancel", None, 0, FALSE)
    /\ UNCHANGED <<erased, fs, users, Globals, expenses, budgets>>

\* A number typed there, and the answer to the confirmation that follows.
DeleteUser(typed, confirm) ==
    /\ pc = "delete"
    /\ LET idx == typed.v - 1
           valid == typed.k = "num" /\ typed.v >= 0 /\ 0 <= idx /\ idx < Len(users)
       IN  IF valid
           THEN LET username_to_delete == users[idx + 1]
                    after == delete_user_profile(fs, users, username_to_delete,
                                                 CURRENT_USERNAME, confirm)
                    reloaded == PyToUsers(load_data(after.disk, USERS_FILE).value)
                IN  /\ fs' = after.disk
                    /\ CURRENT_USERNAME' = after.current
                    /\ users' = reloaded
                    /\ pc' = IF reloaded = <<>> THEN "done" ELSE "menu"
                    /\ last' = Op("delete", username_to_delete, typed.v, after.result)
                    /\ erased' = IF after.result /\ HasRecords(fs, username_to_delete)
                                 THEN erased \cup {username_to_delete} ELSE erased
           ELSE /\ UNCHANGED <<fs, CURRENT_USERNAME, users, pc, erased>>
                /\ last' = Op("delete", None, typed.v, FALSE)
    /\ out' = NoOut
    /\ UNCHANGED <<CURRENT_EXPENSE_FILE, CURRENT_BUDGET_FILE, expenses, budgets>>

\* choice '4': the menu returns False and main() ends.
MenuExit ==
    /\ pc = "menu"
    /\ pc' = "done"
    /\ out' = NoOut
    /\ last' = Op("menu_exit", None, 0, TRUE)
    /\ UNCHANGED <<erased, fs, users, Globals, expenses, budgets>>

-----------------------------------------------------------------------------
(* Aggregation: view_summary, view_monthly_summary, view_annual_summary,    *)
(* view_all_expenses_detailed                                               *)

\* sum(item['amount'] for item in expenses)
total_spending(records) ==
    LET acc[n \in 0..Len(records)] ==
            IF n = 0 THEN 0 ELSE FAdd(acc[n - 1], records[n].amount)
    IN  acc[Len(records)]

\* category_spending with `=` where the loop has `get(category, 0) +`.
category_spending_Overwrites(records) ==
    LET acc[n \in 0..Len(records)] ==
            IF n = 0 THEN <<>>
            ELSE Put(acc[n - 1], records[n].category, records[n].amount)
    IN  acc[Len(records)]

\* the loop filling category_spending
category_spending(records) ==
    LET acc[n \in 0..Len(records)] ==
            IF n = 0 THEN <<>>
            ELSE LET category == records[n].category
                 IN  Put(acc[n - 1], category,
                         FAdd(Get(acc[n - 1], category, 0), records[n].amount))
    IN  acc[Len(records)]

\* datetime.strptime(date, '%Y-%m-%d').strftime('%Y-%m') and ...strftime('%Y')
MonthOf(date) == <<date[1], date[2]>>
YearOf(date) == <<date[1]>>

monthly_spending(records) ==
    LET acc[n \in 0..Len(records)] ==
            IF n = 0 THEN <<>>
            ELSE LET month_year == MonthOf(records[n].date)
                 IN  Put(acc[n - 1], month_year,
                         FAdd(Get(acc[n - 1], month_year, 0), records[n].amount))
    IN  acc[Len(records)]

annual_spending(records) ==
    LET acc[n \in 0..Len(records)] ==
            IF n = 0 THEN <<>>
            ELSE LET year == YearOf(records[n].date)
                 IN  Put(acc[n - 1], year,
                         FAdd(Get(acc[n - 1], year, 0), records[n].amount))
    IN  acc[Len(records)]

\* The order of two date strings.
DateLess(a, b) ==
    \/ a[1] < b[1]
    \/ a[1] = b[1] /\ a[2] < b[2]
    \/ a[1] = b[1] /\ a[2] = b[2] /\ a[3] < b[3]

\* sorted(expenses, key=date, reverse=descending): a stable sort, and
\* reverse=True keeps equal dates in their original order too.
SortedPositions(records, descending) ==
    LET Before(i, j) ==
            \/ IF descending THEN DateLess(records[j].date, records[i].date)
               ELSE DateLess(records[i].date, records[j].date)
            \/ records[i].date = records[j].date /\ i < j
        Place(i) == 1 + Cardinality({j \in 1..Len(records) : Before(j, i)})
    IN  [k \in 1..Len(records) |-> CHOOSE i \in 1..Len(records) : Place(i) = k]

\* The sorted list holds the very objects of `records`, in the sorted order.
SortedByDate(records, descending) ==
    [k \in 1..Len(records) |-> records[SortedPositions(records, descending)[k]]]

\* What view_summary(expenses) displays, given the detail option chosen.
view_summary(records, summary_choice) ==
    IF records = <<>> THEN [kind |-> "no_expenses"]
    ELSE [kind |-> "summary",
          total |-> total_spending(records),
          byCategory |-> category_spending(records),
          choice |-> summary_choice,
          byMonth |-> IF summary_choice = 1 THEN monthly_spending(records) ELSE <<>>,
          byYear |-> IF summary_choice = 2 THEN annual_spending(records) ELSE <<>>,
          listing |-> IF summary_choice = 3 THEN SortedByDate(records, FALSE)
                      ELSE <<>>]

-----------------------------------------------------------------------------
(* Budgets: set_budget, check_budgets *)

\* float(input(...)) is accepted as a limit.
LimitAccepted(typed) == typed.k = "num" /\ ~FLess(typed.v, 0)

set_budget(pairs, text, limit) == Put(pairs, StripTitle(text), limit)

\* Status with `<=` where the code has `<`.
Status_OverAtZero(remaining) ==
    IF FLessEq(remaining, 0) THEN "Over" ELSE "Under"

\* The three branches on `remaining`.
Status(remaining) ==
    IF FLess(remaining, 0) THEN "Over"
    ELSE IF FEq(remaining, 0) THEN "Exact"
    ELSE "Under"

\* the loop filling current_spending
current_spending(records) ==
    LET acc[n \in 0..Len(records)] ==
            IF n = 0 THEN <<>>
            ELSE LET category == records[n].category
                 IN  Put(acc[n - 1], category,
                         FAdd(Get(acc[n - 1], category, 0), records[n].amount))
    IN  acc[Len(records)]

\* One line per category that has spending, instead of one per budget.
Evaluate_BySpending(records, pairs) ==
    LET spending == current_spending(records)
    IN  [i \in 1..Len(spending) |->
            LET category == spending[i][1]
                limit == Get(pairs, category, 0)
                spent == spending[i][2]
                remaining == FSub(limit, spent)
            IN  [category |-> category, limit |-> limit, spent |-> spent,
                 remaining |-> remaining, status |-> Status(remaining)]]

\* The lines check_budgets(expenses, budgets) prints, one per budget.
Evaluate(records, pairs) ==
    [i \in 1..Len(pairs) |->
        LET category == pairs[i][1]
            limit == pairs[i][2]
            spent == Get(current_spending(records), category, 0)
            remaining == FSub(limit, spent)
        IN  [category |-> category, limit |-> limit, spent |-> spent,
             remaining |-> remaining, status |-> Status(remaining)]]

check_budgets(records, pairs) ==
    IF pairs = <<>> THEN [kind |-> "no_budgets"]
    ELSE [kind |-> "budgets", entries |-> Evaluate(records, pairs)]

-----------------------------------------------------------------------------
(* main(): one iteration of its loop per action.  Every iteration starts   *)
(* by loading both stores of the active user.                              *)

\* choice '1': add_expense(expenses), then save_data
AddExpense(amount_typed, category_typed, date_typed) ==
    /\ pc = "main"
    /\ AmountAccepted(amount_typed)
    /\ CategoryAccepted(category_typed)
    /\ DateAccepted(date_typed)
    /\ Len(LoadedExpenses) < MaxLen
    /\ LET new_expense == [amount |-> amount_typed.v,
                           category |-> get_valid_category(category_typed),
                           date |-> get_valid_date(date_typed, <<>>)]
           appended == Append(LoadedExpenses, new_expense)
       IN  /\ expenses' = appended
           /\ fs' = save_data(fs, ExpensesToPy(appended), CURRENT_EXPENSE_FILE)
    /\ budgets' = LoadedBudgets
    /\ out' = NoOut
    /\ last' = Op("add", CURRENT_USERNAME, 0, TRUE)
    /\ UNCHANGED <<erased, pc, users, Globals>>

\* choice '2': view_summary(expenses)
ViewSummary(summary_choice) ==
    /\ pc = "main"
    /\ expenses' = LoadedExpenses
    /\ budgets' = LoadedBudgets
    /\ out' = view_summary(LoadedExpenses, summary_choice)
    /\ last' = Op("view_summary", CURRENT_USERNAME, 0, TRUE)
    /\ UNCHANGED <<erased, fs, pc, users, Globals>>

\* choice '3': manage_expenses(expenses) is entered; with nothing to manage
\* it returns at once and main saves.
ManageEnter ==
    /\ pc = "main"
    /\ expenses' = LoadedExpenses
    /\ budgets' = LoadedBudgets
    /\ IF LoadedExpenses = <<>>
       THEN /\ fs' = save_data(fs, ExpensesToPy(LoadedExpenses), CURRENT_EXPENSE_FILE)
            /\ pc' = "main"
       ELSE /\ fs' = fs
            /\ pc' = "manage"
    /\ out' = NoOut
    /\ last' = Op("manage", CURRENT_USERNAME, 0, LoadedExpenses # <<>>)
    /\ UNCHANGED <<erased, users, Globals>>

\* 'q' in manage_expenses, then main saves.
ManageQuit ==
    /\ pc = "manage"
    /\ fs' = save_data(fs, ExpensesToPy(expenses), CURRENT_EXPENSE_FILE)
    /\ pc' = "main"
    /\ out' = NoOut
    /\ last' = Op("manage_quit", CURRENT_USERNAME, 0, TRUE)
    /\ UNCHANGED <<erased, users, Globals, expenses, budgets>>

\* int(input("Enter the number of the expense to manage: ")) - 1 is an index
\* of the listing.
ListingIndexValid(typed, records) ==
    typed.k = "num" /\ 0 <= typed.v - 1 /\ typed.v - 1 < Len(records)

\* a == b on two different dict objects of the list: equal members, and no
\* nan among them (each record has a float object of its own).
PyEq(a, b) == a = b /\ ~IsNaN(a.amount)

\* expenses.index(x), x being the object at position p: the first position
\* holding that object or a record equal to it.
IndexOf(records, p) ==
    CHOOSE i \in 1..Len(records) :
        /\ i = p \/ PyEq(records[i], records[p])
        /\ \A j \in 1..(i - 1) : ~(j = p \/ PyEq(records[j], records[p]))

\* The position in `expenses` that manage_expenses works on when the user
\* types `typed` under the listing.
OriginalIdx(records, typed) ==
    IndexOf(records, SortedPositions(records, TRUE)[typed.v])

\* 'd', a number, and the answer to "Are you sure": a deletion ends the
\* function and main saves.
ManageDelete(typed, confirm) ==
    /\ pc = "manage"
    /\ IF ListingIndexValid(typed, expenses) /\ confirm = "y"
       THEN LET popped == RemoveAt(expenses, OriginalIdx(expenses, typed))
            IN  /\ expenses' = popped
                /\ fs' = save_data(fs, ExpensesToPy(popped), CURRENT_EXPENSE_FILE)
                /\ pc' = "main"
                /\ last' = Op("remove", CURRENT_USERNAME, typed.v, TRUE)
       ELSE /\ UNCHANGED <<expenses, fs, pc>>
            /\ last' = Op("remove", CURRENT_USERNAME, typed.v, FALSE)
    /\ out' = NoOut
    /\ UNCHANGED <<erased, users, Globals, budgets>>

\* The record after the three prompts of an edit.
Edited(record, amount_typed, category_text, date_typed) ==
    [amount |-> IF amount_typed.k = "num" /\ ~FLessEq(amount_typed.v, 0)
                THEN amount_typed.v ELSE record.amount,
     category |-> IF StripTitle(category_text) # "" THEN StripTitle(category_text)
                  ELSE record.category,
     date |-> get_valid_date(date_typed, record.date)]

\* 'e', a number, and the three new values: an edit ends the function and
\* main saves.
ManageEdit(typed, amount_typed, category_text, date_typed) ==
    /\ pc = "manage"
    /\ DateAccepted(date_typed)
    /\ IF ListingIndexValid(typed, expenses)
       THEN LET original_idx == OriginalIdx(expenses, typed)
                edited == [expenses EXCEPT ![original_idx] =
                              Edited(@, amount_typed, category_text, date_typed)]
            IN  /\ expenses' = edited
                /\ fs' = save_data(fs, ExpensesToPy(edited), CURRENT_EXPENSE_FILE)
                /\ pc' = "main"
                /\ last' = Op("amend", CURRENT_USERNAME, typed.v, TRUE)
       ELSE /\ UNCHANGED <<expenses, fs, pc>>
            /\ last' = Op("amend", CURRENT_USERNAME, typed.v, FALSE)
    /\ out' = NoOut
    /\ UNCHANGED <<erased, users, Globals, budgets>>

\* choice '4': set_budget(budgets), then save_data
SetBudget(category_text, limit_typed) ==
    /\ pc = "main"
    /\ LimitAccepted(limit_typed)
    /\ LET updated == set_budget(LoadedBudgets, category_text, limit_typed.v)
       IN  /\ budgets' = updated
           /\ fs' = save_data(fs, BudgetsToPy(updated), CURRENT_BUDGET_FILE)
    /\ expenses' = LoadedExpenses
    /\ out' = NoOut
    /\ last' = Op("set_budget", CURRENT_USERNAME, 0, TRUE)
    /\ UNCHANGED <<erased, pc, users, Globals>>

\* choice '5': check_budgets(expenses, budgets)
CheckBudgets ==
    /\ pc = "main"
    /\ expenses' = LoadedExpenses
    /\ budgets' = LoadedBudgets
    /\ out' = check_budgets(LoadedExpenses, LoadedBudgets)
    /\ last' = Op("check_budgets", CURRENT_USERNAME, 0, TRUE)
    /\ UNCHANGED <<erased, fs, pc, users, Globals>>

\* reset_user_data removing the expense file only.
reset_user_data_ExpensesOnly(disk, username, confirm) ==
    IF confirm = "YES"
    THEN [disk |-> remove(disk, ExpenseFile(username)), result |-> TRUE]
    ELSE [disk |-> disk, result |-> FALSE]

\* reset_user_data(username), given the answer to its confirmation: the
\* directory after it and what it returns.
reset_user_data(disk, username, confirm) ==
    IF confirm = "YES"
    THEN [disk |-> remove(remove(disk, ExpenseFile(username)), BudgetFile(username)),
          result |-> TRUE]
    ELSE [disk |-> disk, result |-> FALSE]

\* choice '6'
ResetData(confirm) ==
    /\ pc = "main"
    /\ LET after == reset_user_data(fs, CURRENT_USERNAME, confirm)
       IN  /\ fs' = after.disk
           /\ expenses' = IF after.result THEN <<>> ELSE LoadedExpenses
           /\ budgets' = IF after.result THEN <<>> ELSE LoadedBudgets
           /\ last' = Op("reset", CURRENT_USERNAME, 0, after.result)
    /\ out' = NoOut
    /\ UNCHANGED <<erased, pc, users, Globals>>

\* choice '7': user_management_menu() is entered and loads the registry.
SwitchUser ==
    /\ pc = "main"
    /\ expenses' = LoadedExpenses
    /\ budgets' = LoadedBudgets
    /\ users' = PyToUsers(load_data(fs, USERS_FILE).value)
    /\ pc' = "menu"
    /\ out' = NoOut
    /\ last' = Op("menu", CURRENT_USERNAME, 0, TRUE)
    /\ UNCHANGED <<erased, fs, Globals>>

\* choice '8'
ExitApp ==
    /\ pc = "main"
    /\ expenses' = LoadedExpenses
    /\ budgets' = LoadedBudgets
    /\ pc' = "done"
    /\ out' = NoOut
    /\ last' = Op("exit", CURRENT_USERNAME, 0, TRUE)
    /\ UNCHANGED <<erased, fs, users, Globals>>

-----------------------------------------------------------------------------
(* The whole program, from a directory with no file of the program in it *)

UserNames == UserNamesTyped

\* What is typed at the username prompt.
NameInputs == UserNames \cup {<<>>, <<" ", "a">>, <<"a", " ", "b">>, <<"a", "_">>}

Files == {USERS_FILE} \cup {ExpenseFile(u) : u \in UserNames}
             \cup {BudgetFile(u) : u \in UserNames}

IndexInputs == {Junk} \cup {Num(n) : n \in 0..(MaxLen + 1)}
AmountInputs == {Junk, Num(0), Num(1)}
CategoryInputs == {CatNumber(1), CatNumber(11), CatCustom(" ")}
DateInputs == {DateBlank, DateText(<<2024, 13, 1>>)}
EditAmountInputs == {Blank, Num(0)}
BudgetCategoryInputs == {"food"}
LimitInputs == {Junk, Num(0 - 1), Num(0), Num(2)}

Init ==
    /\ fs = [f \in Files |-> Absent]
    /\ pc = "start"
    /\ users = <<>>
    /\ CURRENT_USERNAME = None
    /\ CURRENT_EXPENSE_FILE = <<>>
    /\ CURRENT_BUDGET_FILE = <<>>
    /\ expenses = <<>>
    /\ budgets = <<>>
    /\ out = NoOut
    /\ last = Op("", None, 0, TRUE)
    /\ erased = {}

Next ==
    \/ MenuEnter
    \/ MenuChooseSelect
    \/ \E typed \in IndexInputs : SelectUser(typed)
    \/ MenuChooseCreate
    \/ \E typed \in NameInputs : CreateUser(typed)
    \/ MenuChooseDelete
    \/ DeleteCancel
    \/ \E typed \in IndexInputs, confirm \in {"DELETE USER", "n"} :
          DeleteUser(typed, confirm)
    \/ MenuExit
    \/ \E a \in AmountInputs, c \in CategoryInputs, d \in DateInputs :
          AddExpense(a, c, d)
    \/ \E choice \in {1, 5} : ViewSummary(choice)
    \/ ManageEnter
    \/ ManageQuit
    \/ \E typed \in IndexInputs, confirm \in {"y", "n"} : ManageDelete(typed, confirm)
    \/ \E typed \in IndexInputs, a \in EditAmountInputs, d \in DateInputs :
          ManageEdit(typed, a, "", d)
    \/ \E c \in BudgetCategoryInputs, l \in LimitInputs : SetBudget(c, l)
    \/ CheckBudgets
    \/ \E confirm \in {"YES", "yes"} : ResetData(confirm)
    \/ SwitchUser
    \/ ExitApp

Spec == Init /\ [][Next]_vars

-----------------------------------------------------------------------------
(* The program at the top of main's loop, user "a" registered and active,  *)
(* its stores holding `records` and `pairs` (no budget file when there is  *)
(* no budget yet).                                                         *)

InitWith(records, pairs) ==
    /\ fs = [f \in Files |->
               IF f = USERS_FILE THEN Json(json_dump(UsersToPy(<< <<"a">> >>)))
               ELSE IF f = ExpenseFile(<<"a">>) THEN Json(json_dump(ExpensesToPy(records)))
               ELSE IF f = BudgetFile(<<"a">>) /\ pairs # <<>>
                    THEN Json(json_dump(BudgetsToPy(pairs)))
               ELSE Absent]
    /\ pc = "main"
    /\ users = <<>>
    /\ CURRENT_USERNAME = <<"a">>
    /\ CURRENT_EXPENSE_FILE = ExpenseFile(<<"a">>)
    /\ CURRENT_BUDGET_FILE = BudgetFile(<<"a">>)
    /\ expenses = records
    /\ budgets = pairs
    /\ out = NoOut
    /\ last = Op("", None, 0, TRUE)
    /\ erased = {}

RecordsOver(amounts, categories, dates) ==
    [amount : amounts, category : categories, date : dates]

-----------------------------------------------------------------------------
(* manage_expenses on the stores of valid records, up to MaxRecords long *)

ManageRecords == RecordsOver({1, 2}, {"Food"}, {Today, Yesterday})
ManageIndexInputs == {Junk} \cup {Num(n) : n \in 0..(MaxRecords + 1)}

\* What is typed at the three prompts of an edit: amount, category, date.
ManageEditInputs ==
    {<<Blank, "", DateBlank>>,
     <<Num(2), "", DateBlank>>,
     <<Num(0), "", DateBlank>>,
     <<Junk, "rent", DateBlank>>,
     <<Blank, "", DateWord("today")>>,
     <<Num(2), "rent", DateText(<<2024, 13, 1>>)>>}

InitManage == \E records \in SeqsUpTo(ManageRecords, MaxRecords) : InitWith(records, <<>>)

NextManage ==
    \/ ManageEnter
    \/ ManageQuit
    \/ \E typed \in ManageIndexInputs, confirm \in {"y", "n"} :
          ManageDelete(typed, confirm)
    \/ \E typed \in ManageIndexInputs, new \in ManageEditInputs :
          ManageEdit(typed, new[1], new[2], new[3])

SpecManage == InitManage /\ [][NextManage]_vars

-----------------------------------------------------------------------------
(* add_expense and manage_expenses together, from the stores of valid      *)
(* records up to MaxLen long, with everything float() accepts typed in     *)

EditorRecords == RecordsOver({1}, {"Food"}, {Today})
EditorIndexInputs == {Junk} \cup {Num(n) : n \in 0..(MaxLen + 1)}
EditorAmountInputs == {Junk, Num(0), Num(1), Num(NaN)}
EditorCategoryInputs == {CatNumber(1), CatCustom(" ")}

\* What is typed at the three prompts of an edit: amount, category, date.
EditorPatchInputs ==
    {<<Blank, "", DateBlank>>,
     <<Num(0), "", DateBlank>>,
     <<Num(0 - 1), "", DateBlank>>,
     <<Junk, "", DateBlank>>,
     <<Num(2), "rent", DateText(Yesterday)>>,
     <<Num(NaN), "", DateBlank>>}

InitEditor == \E records \in SeqsUpTo(EditorRecords, MaxLen) : InitWith(records, <<>>)

NextEditor ==
    \/ \E a \in EditorAmountInputs, c \in EditorCategoryInputs : AddExpense(a, c, DateBlank)
    \/ ManageEnter
    \/ ManageQuit
    \/ \E typed \in EditorIndexInputs, confirm \in {"y", "n"} :
          ManageDelete(typed, confirm)
    \/ \E typed \in EditorIndexInputs, new \in EditorPatchInputs :
          ManageEdit(typed, new[1], new[2], new[3])

SpecEditor == InitEditor /\ [][NextEditor]_vars

-----------------------------------------------------------------------------
(* load_data on a directory whose files were written by anything *)

LoadFiles == {USERS_FILE, ExpenseFile(<<"a">>), BudgetFile(<<"a">>)}

LoadContents ==
    {Absent, Garbage, Undecodable,
     Json(json_dump(PyList(<<>>))),
     Json(json_dump(PyDict(<<>>))),
     Json(json_dump(ExpensesToPy(<<[amount |-> 1, category |-> "Food", date |-> Today]>>))),
     Json(json_dump(BudgetsToPy(<< <<"Food", 3>> >>))),
     Json(json_dump(UsersToPy(<< <<"a">> >>))),
     Json(json_dump(PyFloat(1)))}

InitLoad ==
    /\ fs \in [Files -> LoadContents]
    /\ \A f \in Files \ LoadFiles : fs[f] = Absent
    /\ pc = "load"
    /\ users = <<>>
    /\ CURRENT_USERNAME = None
    /\ CURRENT_EXPENSE_FILE = <<>>
    /\ CURRENT_BUDGET_FILE = <<>>
    /\ expenses = <<>>
    /\ budgets = <<>>
    /\ out = NoOut
    /\ last = Op("", None, 0, TRUE)
    /\ erased = {}

\* load_data(filename) is called; what it returns or raises is recorded.
LoadData(filename) ==
    /\ pc = "load"
    /\ out' = [kind |-> "load", filename |-> filename,
               result |-> load_data(fs, filename)]
    /\ last' = Op("load", None, 0, load_data(fs, filename).raised = "")
    /\ UNCHANGED <<erased, fs, pc, users, Globals, expenses, budgets>>

NextLoad == \E filename \in LoadFiles : LoadData(filename)

SpecLoad == InitLoad /\ [][NextLoad]_vars

-----------------------------------------------------------------------------
(* view_summary on the stores of valid records, up to MaxRecords long *)

SummaryRecords ==
    RecordsOver({1, 2, 3}, {"Food"}, {<<2024, 1, 5>>, <<2025, 2, 1>>})
        \cup RecordsOver({1, 2, 3}, {"Rent"}, {<<2024, 2, 1>>})

InitSummary ==
    \E records \in SeqsUpTo(SummaryRecords, MaxRecords) : InitWith(records, <<>>)

NextSummary == \E choice \in {1, 2, 3, 5} : ViewSummary(choice)

SpecSummary == InitSummary /\ [][NextSummary]_vars

-----------------------------------------------------------------------------
(* set_budget and check_budgets on the stores of valid records *)

BudgetRecords ==
    RecordsOver({1, 3}, {"Food"}, {Today}) \cup RecordsOver({1}, {"Rent"}, {Today})
BudgetTexts == {"food", "Rent", "fun"}
BudgetLimitInputs == {Junk, Num(0 - 1), Num(0), Num(3)}

InitBudget ==
    \E records \in SeqsUpTo(BudgetRecords, MaxRecords) : InitWith(records, <<>>)

NextBudget ==
    \/ \E c \in BudgetTexts, l \in BudgetLimitInputs : SetBudget(c, l)
    \/ CheckBudgets

SpecBudget == InitBudget /\ [][NextBudget]_vars

-----------------------------------------------------------------------------
(* The stores as they are on disk *)

Registry == PyToUsers(load_data(fs, USERS_FILE).value)
StoredExpenses(username) == load_data(fs, ExpenseFile(username))
StoredBudgets(username) == load_data(fs, BudgetFile(username))

NoDuplicates(s) == \A i, j \in 1..Len(s) : s[i] = s[j] => i = j

-----------------------------------------------------------------------------
(* Claims about the user registry *)

\* C1: a confirmed deletion of a registered user u removes both stores of u,
\* removes u from the persisted registry and from the list the menu offers,
\* and logs u out if u was the active user; an unconfirmed one changes
\* nothing.  A user that is selected is always taken from the registry, so u
\* cannot be selected until it is created again.
C1_Step ==
    /\ (last'.op = "delete" /\ last'.ok) =>
          /\ last'.name \in Range(Registry)
          /\ fs'[ExpenseFile(last'.name)] = Absent
          /\ fs'[BudgetFile(last'.name)] = Absent
          /\ last'.name \notin Range(Registry')
          /\ last'.name \notin Range(users')
          /\ Registry' = ListRemove(Registry, last'.name)
          /\ CURRENT_USERNAME' =
                IF CURRENT_USERNAME = last'.name THEN None ELSE CURRENT_USERNAME
    /\ (last'.op = "delete" /\ ~last'.ok) => UNCHANGED <<fs, users, Globals>>
    /\ (last'.op = "select" /\ last'.ok) =>
          /\ last'.name \in Range(Registry)
          /\ CURRENT_USERNAME' = last'.name
    /\ (CURRENT_USERNAME' # CURRENT_USERNAME /\ CURRENT_USERNAME' # None) =>
          \/ last'.op = "select" /\ CURRENT_USERNAME' \in Range(Registry)
          \/ last'.op = "create"

C1_DeleteUser == [][C1_Step]_vars

\* The active user, who has records, has just been deleted, and other users remain.
C1_Witness ==
    /\ last.op = "delete" /\ last.ok
    /\ CURRENT_USERNAME = None
    /\ last.name \in erased
    /\ pc = "menu"

\* C2: a username that is empty, not alphanumeric or already registered is
\* rejected and nothing changes; the registry never holds a name twice.
C2_Step ==
    /\ last'.op = "create" =>
          (last'.ok <=> isalnum(last'.name) /\ last'.name \notin Range(Registry))
    /\ (last'.op = "create" /\ ~last'.ok) =>
          /\ UNCHANGED <<fs, users, Globals>>
          /\ pc' = "create"
    /\ NoDuplicates(Registry')
    /\ NoDuplicates(users')

C2_CreateRejected == [][C2_Step]_vars

\* A name that is in the registry has just been refused.
C2_Witness ==
    /\ last.op = "create" /\ ~last.ok
    /\ last.name \in Range(Registry)
    /\ Len(Registry) = Cardinality(Range(Registry))

\* C3: a successful creation appends the name to the persisted registry,
\* makes it the active user, and both of its stores load empty.
C3_Step ==
    (last'.op = "create" /\ last'.ok) =>
        /\ Registry' = Append(Registry, last'.name)
        /\ CURRENT_USERNAME' = last'.name
        /\ CURRENT_EXPENSE_FILE' = ExpenseFile(last'.name)
        /\ CURRENT_BUDGET_FILE' = BudgetFile(last'.name)
        /\ load_data(fs', ExpenseFile(last'.name)) = Returned(PyList(<<>>))
        /\ load_data(fs', BudgetFile(last'.name)) = Returned(PyDict(<<>>))
        /\ LoadedExpenses' = <<>>
        /\ LoadedBudgets' = <<>>
        /\ pc' = "main"

C3_CreateUser == [][C3_Step]_vars

\* A user that was deleted while it had records has just been created again.
C3_Witness ==
    /\ last.op = "create" /\ last.ok
    /\ last.name \in erased

\* C4: a confirmed reset removes both stores of the active user and nothing
\* else: the registry, the active user and every other file stay, and both
\* stores load empty; an unconfirmed reset changes nothing.
C4_Step ==
    /\ (last'.op = "reset" /\ last'.ok) =>
          /\ fs' = [fs EXCEPT ![ExpenseFile(CURRENT_USERNAME)] = Absent,
                              ![BudgetFile(CURRENT_USERNAME)] = Absent]
          /\ UNCHANGED <<Globals, pc>>
          /\ Registry' = Registry
          /\ LoadedExpenses' = <<>> /\ expenses' = <<>>
          /\ LoadedBudgets' = <<>> /\ budgets' = <<>>
    /\ (last'.op = "reset" /\ ~last'.ok) =>
          /\ UNCHANGED <<fs, Globals, pc>>
          /\ expenses' = LoadedExpenses
          /\ budgets' = LoadedBudgets

C4_ResetUserData == [][C4_Step]_vars

\* The active user's data has just been reset while another user holds records.
C4_Witness ==
    /\ last.op = "reset" /\ last.ok
    /\ \E u \in UserNames :
          /\ u # CURRENT_USERNAME
          /\ StoredExpenses(u).value.v # <<>>
          /\ StoredBudgets(u).value.v # <<>>

-----------------------------------------------------------------------------
(* Claims about the record editor *)

\* `after` is `before` with the element at one position deleted: one element
\* shorter, the others in their original order.
OneDeleted(before, after) ==
    /\ Len(after) = Len(before) - 1
    /\ \E i \in 1..Len(before) :
          /\ \A j \in 1..(i - 1) : after[j] = before[j]
          /\ \A j \in i..Len(after) : after[j] = before[j + 1]

\* C5: a removal with a number outside 1..len(records) fails and leaves the
\* records as they were, in memory and on disk; so does an unconfirmed one; a
\* confirmed removal with a valid number deletes exactly one element and
\* keeps the others in their original order, and the result is saved.
C5_Step ==
    last'.op = "remove" =>
        /\ last'.ref \notin 1..Len(expenses) => ~last'.ok
        /\ ~last'.ok => UNCHANGED <<expenses, fs, pc>>
        /\ last'.ok =>
              /\ OneDeleted(expenses, expenses')
              /\ load_data(fs', CURRENT_EXPENSE_FILE) = Returned(ExpensesToPy(expenses'))
              /\ UNCHANGED <<budgets, Globals>>

C5_Remove == [][C5_Step]_vars

\* The record listed first has just been removed from a list of three, and two
\* different records remain.
C5_Witness ==
    /\ last.op = "remove" /\ last.ok
    /\ Len(expenses) = 2
    /\ expenses[1] # expenses[2]
    /\ last.ref = 1

-----------------------------------------------------------------------------
(* Claims about load_data *)

\* The empty value of the shape a location is expected to hold.
ExpectedEmpty(filename) ==
    IF Contains(filename, BASE_BUDGET_FILE) THEN PyDict(<<>>) ELSE PyList(<<>>)

\* C6: load on a location that does not exist, or whose content does not
\* parse, raises nothing and returns the empty value of the expected shape.
C6_LoadNeverRaises ==
    (out.kind = "load" /\ fs[out.filename].kind # "json") =>
        out.result = Returned(ExpectedEmpty(out.filename))

\* C7: load on a location whose content parses but has not the expected
\* shape returns the empty value of the expected shape.
C7_SchemaMismatchIsEmpty ==
    (/\ out.kind = "load"
     /\ fs[out.filename].kind = "json"
     /\ json_load(fs[out.filename].doc).t # ExpectedEmpty(out.filename).t) =>
        out.result = Returned(ExpectedEmpty(out.filename))

-----------------------------------------------------------------------------
(* Claims about the aggregation *)

\* Python's sum(d.values()) over a dict of floats.
SumValues(members) ==
    LET acc[n \in 0..Len(members)] ==
            IF n = 0 THEN 0 ELSE FAdd(acc[n - 1], members[n][2])
    IN  acc[Len(members)]

\* The sum in the real numbers of the amounts at the positions in S.
RECURSIVE RealSum(_, _)
RealSum(records, S) ==
    IF S = {} THEN 0
    ELSE LET i == CHOOSE x \in S : TRUE
         IN  records[i].amount + RealSum(records, S \ {i})

\* The float sum, in the order of the records, of the amounts at the positions in S.
FloatSum(records, S) ==
    LET acc[n \in 0..Len(records)] ==
            IF n = 0 THEN 0
            ELSE IF n \in S THEN FAdd(acc[n - 1], records[n].amount)
            ELSE acc[n - 1]
    IN  acc[Len(records)]

\* No addition of amounts of these records rounds.
NoRounding(records) ==
    \A S \in SUBSET (1..Len(records)) : Representable(RealSum(records, S))

\* The original C8: total equals the sum of the values of each mapping shown.
C8_TotalEqualsSums ==
    out.kind = "summary" =>
        /\ out.total = SumValues(out.byCategory)
        /\ out.choice = 1 => out.total = SumValues(out.byMonth)
        /\ out.choice = 2 => out.total = SumValues(out.byYear)

\* `members` has one entry per key that occurs in `keys`, the keys of the
\* records in their order, and its value is the float sum of the amounts of
\* the records with that key, in their order.
GroupsBy(members, records, keys) ==
    /\ NoDuplicates(Keys(members))
    /\ Range(Keys(members)) = Range(keys)
    /\ \A m \in 1..Len(members) :
          members[m][2] =
              FloatSum(records, {i \in 1..Len(records) : keys[i] = members[m][1]})

CategoryKeys(records) == [i \in 1..Len(records) |-> records[i].category]
MonthKeys(records) ==
    [i \in 1..Len(records) |-> <<records[i].date[1], records[i].date[2]>>]
YearKeys(records) == [i \in 1..Len(records) |-> <<records[i].date[1]>>]

\* C8, amended: each mapping sums the amounts of the records sharing the key,
\* every record under exactly one key; and when no addition of amounts rounds,
\* total equals the sum of the values of each mapping, which is the sum of all
\* amounts.
C8_SumsAgreeWhenExact ==
    out.kind = "summary" =>
        /\ out.total = FloatSum(expenses, 1..Len(expenses))
        /\ GroupsBy(out.byCategory, expenses, CategoryKeys(expenses))
        /\ out.choice = 1 => GroupsBy(out.byMonth, expenses, MonthKeys(expenses))
        /\ out.choice = 2 => GroupsBy(out.byYear, expenses, YearKeys(expenses))
        /\ NoRounding(expenses) =>
              /\ out.total = RealSum(expenses, 1..Len(expenses))
              /\ out.total = SumValues(out.byCategory)
              /\ out.choice = 1 => out.total = SumValues(out.byMonth)
              /\ out.choice = 2 => out.total = SumValues(out.byYear)

\* Three records in two categories and two months, no addition rounding,
\* shown by month.
C8_Witness ==
    /\ out.kind = "summary"
    /\ out.choice = 1
    /\ Len(expenses) = 3
    /\ NoRounding(expenses)
    /\ Len(out.byCategory) = 2
    /\ Len(out.byMonth) = 3

-----------------------------------------------------------------------------
(* Claims about the budget evaluation *)

Categories(entries) == [i \in 1..Len(entries) |-> entries[i].category]

\* C9: check_budgets reports exactly one entry per key of budgets, in the
\* order of the keys in budgets, and no other category; that order is the
\* order in which the keys were first set: set_budget leaves the keys as they
\* are or puts one new key last.
C9_Reported ==
    /\ out.kind = "budgets" =>
          /\ Categories(out.entries) = Keys(LoadedBudgets)
          /\ NoDuplicates(Categories(out.entries))
    /\ out.kind = "no_budgets" => LoadedBudgets = <<>>
    /\ pc = "main" => budgets = LoadedBudgets

C9_SetBudgetStep ==
    last'.op = "set_budget" =>
        \/ Keys(budgets') = Keys(budgets)
        \/ \E k \in {StripTitle(c) : c \in BudgetTexts} \ Range(Keys(budgets)) :
              Keys(budgets') = Append(Keys(budgets), k)

C9_OneEntryPerBudget == []C9_Reported /\ [][C9_SetBudgetStep]_vars

\* Two budgets are reported, the first without spending, while a category
\* without budget has spending.
C9_Witness ==
    /\ out.kind = "budgets"
    /\ Categories(out.entries) = <<"Fun", "Rent">>
    /\ \E i \in 1..Len(expenses) : expenses[i].category = "Food"

-----------------------------------------------------------------------------
(* Claims about the record that manage_expenses works on *)

\* The position in `records` of the entry listed under number k: the listing
\* is by date, latest first, and records of one date are listed in the order
\* they are stored in.
ListedPosition(records, k) ==
    LET Before(j, i) ==
            \/ DateLess(records[i].date, records[j].date)
            \/ records[i].date = records[j].date /\ j < i
    IN  CHOOSE i \in 1..Len(records) :
            Cardinality({j \in 1..Len(records) : Before(j, i)}) = k - 1

C11_Step ==
    last'.op \in {"remove", "amend"} /\ last'.ok =>
        LET p == ListedPosition(expenses, last'.ref)
        IN  IF last'.op = "remove"
            THEN /\ Len(expenses') = Len(expenses) - 1
                 /\ \A i \in 1..Len(expenses') :
                       expenses'[i] = expenses[IF i < p THEN i ELSE i + 1]
            ELSE /\ Len(expenses') = Len(expenses)
                 /\ \A i \in 1..Len(expenses) : i # p => expenses'[i] = expenses[i]

\* C11: in manage_expenses the record removed or amended is the stored record
\* at the position of the entry picked from the date-descending listing, for
\* every store, also one holding several equal records; after a removal the
\* stored sequence is the original one with exactly that position deleted.
C11_PickedPosition == [][C11_Step]_vars

\* The same for the stores whose records are pairwise different.
C11_DistinctStep ==
    (\A i, j \in 1..Len(expenses) : expenses[i] = expenses[j] => i = j) => C11_Step

C11_PickedPositionOfDistinct == [][C11_DistinctStep]_vars


-----------------------------------------------------------------------------
(* Claims about the records the editor leaves in the store *)

C12_Valid(record) == FLess(0, record.amount) /\ record.category # ""

\* Every record in memory and in the active user's expense file is valid.
C12_StoredValid ==
    /\ \A i \in 1..Len(expenses) : C12_Valid(expenses[i])
    /\ \A i \in 1..Len(LoadedExpenses) : C12_Valid(LoadedExpenses[i])

\* An edit changes one record at most, and each field of it either keeps its
\* value or takes a valid new one.
C12_AmendStep ==
    last'.op = "amend" /\ last'.ok =>
        /\ Len(expenses') = Len(expenses)
        /\ \E p \in 1..Len(expenses) :
              /\ \A i \in 1..Len(expenses) : i # p => expenses'[i] = expenses[i]
              /\ \/ expenses'[p].amount = expenses[p].amount
                 \/ FLess(0, expenses'[p].amount)
              /\ \/ expenses'[p].category = expenses[p].category
                 \/ expenses'[p].category # ""
              /\ \/ expenses'[p].date = expenses[p].date
                 \/ ValidDate(expenses'[p].date)

\* C12: an edit overwrites only the fields that are supplied and valid (a
\* blank, non-positive or non-numeric amount keeps the current amount, a
\* blank category or date keeps the current one); hence, from a store of
\* valid records, after any sequence of add, amend and remove every stored
\* record has amount > 0 and a non-empty category.
C12_AmendKeepsValid == []C12_StoredValid /\ [][C12_AmendStep]_vars


-----------------------------------------------------------------------------
(* Claims about main's loop *)

\* The choices of main's loop that change a store.
C13_Mutations == {"add", "amend", "remove", "set_budget"}

\* After a mutation both stores of the active user load as the values main
\* holds; the stores of a user change only in an operation on that user.
C13_Step ==
    /\ (last'.op \in C13_Mutations /\ last'.ok) =>
          /\ load_data(fs', CURRENT_EXPENSE_FILE') = Returned(ExpensesToPy(expenses'))
          /\ load_data(fs', CURRENT_BUDGET_FILE') = Returned(BudgetsToPy(budgets'))
    /\ \A u \in UserNames :
          (\/ load_data(fs', ExpenseFile(u)) # load_data(fs, ExpenseFile(u))
           \/ load_data(fs', BudgetFile(u)) # load_data(fs, BudgetFile(u)))
          => /\ last'.name = u
             /\ last'.ok
             /\ last'.op \in C13_Mutations \cup {"reset", "delete"}

\* At the top of the loop, after an iteration of the loop, what is loaded is
\* what the iteration left in memory.
C13_LoadedIsPrevious ==
    (pc = "main" /\ last.op \notin {"", "select", "create"}) =>
        /\ LoadedExpenses = expenses
        /\ LoadedBudgets = budgets

C14_ActiveUser ==
    pc \in {"main", "manage"} =>
        /\ CURRENT_USERNAME # None
        /\ \E i \in 1..Len(Registry) : Registry[i] = CURRENT_USERNAME
        /\ CURRENT_EXPENSE_FILE = CURRENT_USERNAME \o <<BASE_EXPENSE_FILE>>
        /\ CURRENT_BUDGET_FILE = CURRENT_USERNAME \o <<BASE_BUDGET_FILE>>

\* An iteration of main's loop works for the active user and writes or
\* removes no file but the two of that user.
C14_Step ==
    pc \in {"main", "manage"} =>
        /\ last'.name = CURRENT_USERNAME
        /\ \A f \in Files :
              fs'[f] # fs[f] => f \in {CURRENT_EXPENSE_FILE, CURRENT_BUDGET_FILE}

\* C14: whenever main's loop loads or saves a store, the active username is
\* set and in the persisted registry and the two locations in use are that
\* username with the expense and the budget suffix; no store is read or
\* written for a deleted user, whatever was selected, created, deleted or
\* left in the user-management menu.
C14_StoresOfActiveUser == []C14_ActiveUser /\ [][C14_Step]_vars

\* A store has just been saved for a user selected while a user deleted with
\* its records is still out of the registry.
C14_Witness ==
    /\ pc = "main"
    /\ last.op = "add" /\ last.ok
    /\ Len(LoadedExpenses) = 2
    /\ \E u \in erased :
          /\ \A i \in 1..Len(Registry) : Registry[i] # u
          /\ StoredExpenses(u) = Returned(PyList(<<>>))

====
